---- MODULE Spec2Model ----
(***************************************************************************)
(* Model of build_and_install.py: the interactive build / install / upload *)
(* menu of delta-optimizer.                                                *)
(*                                                                         *)
(* Text the operator types is a sequence of one-character strings, so that *)
(* str.strip() and str.lower() are computed and not assumed.  Python       *)
(* values that an operation can return are the strings "True", "False",    *)
(* "None" and the archive file name.  Every print, input, spawned command, *)
(* rmtree, archive write and function call of one loop iteration is        *)
(* appended to `log`, in program order.                                    *)
(*                                                                         *)
(* External commands are opaque: only their exit status is modelled.  What *)
(* they do to build/, dist/ and the egg-info directory is outside the      *)
(* source; Init therefore starts from every combination of those paths.    *)
(***************************************************************************)
EXTENDS Integers, Sequences, FiniteSets, TLC

VARIABLES
    pc,        \* position of main(): "menu", "prompt", "dispatch", "exited", "crashed"
    options,   \* the ordered key -> (description, function) table of main()
    raw,       \* the line input() returned at the menu prompt
    choice,    \* raw.strip()
    fs,        \* kind of each path of build_dirs in the working directory
    log,       \* events of the current loop iteration, in program order
    ret,       \* value the last function() call returned (main discards it)
    exc,       \* exception the last function() call raised, or "none"
    response,  \* the line input() returned at the upload confirmation
    streak     \* history: consecutive completed runs of the clean entry

vars == <<pc, options, raw, choice, fs, log, ret, exc, response, streak>>

(***************************************************************************)
(* Bounds of the model.                                                    *)
(***************************************************************************)
MaxExit == 1      \* external commands exit with a status in 0..MaxExit
MaxPad == 1       \* blanks the operator may type around a menu key
MaxStreak == 2    \* cap of the history counter `streak`

(***************************************************************************)
(* Python values and events.                                               *)
(***************************************************************************)
PyTrue == "True"
PyFalse == "False"
PyNone == "None"

\* bool(v) for the values an operation can return
Truthy(v) == v \notin {PyFalse, PyNone, ""}

NoCode == 0 - 1

Ev(kind, arg, what, code) == [kind |-> kind, arg |-> arg, what |-> what, code |-> code]

Out(arg, what) == Ev("print", arg, what, NoCode)

Call(fn) == Ev("call", fn, "", NoCode)

\* the record every operation takes and returns
World(f, l, resp) == [fs |-> f, log |-> l, response |-> resp, ret |-> PyNone, exc |-> "none"]

Emit(w, e) == [w EXCEPT !.log = Append(w.log, e)]

Return(w, v) == [w EXCEPT !.ret = v]

Raise(w, x) == [w EXCEPT !.exc = x]

(***************************************************************************)
(* str.strip() and str.lower() on the characters the operator can type.    *)
(***************************************************************************)
Whitespace == {" ", "\t"}

RECURSIVE lstrip(_)
lstrip(s) ==
    IF s # <<>> /\ Head(s) \in Whitespace THEN lstrip(Tail(s)) ELSE s

RECURSIVE rstrip(_)
rstrip(s) ==
    IF s # <<>> /\ s[Len(s)] \in Whitespace
    THEN rstrip(SubSeq(s, 1, Len(s) - 1))
    ELSE s

strip(s) == rstrip(lstrip(s))

lower_char(c) ==
    CASE c = "Y" -> "y"
      [] c = "N" -> "n"
      [] c = "E" -> "e"
      [] c = "S" -> "s"
      [] OTHER -> c

lower(s) == [i \in 1..Len(s) |-> lower_char(s[i])]

(***************************************************************************)
(* The filesystem paths and the external commands named in the source.     *)
(***************************************************************************)
build_dirs == <<"build", "dist", "delta_optimizer.egg-info">>

Kinds == {"absent", "dir", "file"}

\* os.path.exists
exists(kind) == kind # "absent"

\* os.path.isdir
isdir(kind) == kind = "dir"

build_commands == <<"python setup.py sdist bdist_wheel", "python -m build">>

install_command == "pip install ."

upload_command == "twine upload dist/*"

tests == <<"python -c import delta_optimizer",
           "python -c from delta_optimizer import DeltaOptimizer",
           "python examples/quick_start.py --dry-run">>

files_to_include == <<"delta_optimizer/", "examples/", "setup.py", "requirements.txt",
                      "README.md", "LICENSE", "build_and_install.py">>

zip_filename == "delta-optimizer-YYYYMMDD.zip"

Range(s) == {s[i] : i \in 1..Len(s)}

(***************************************************************************)
(* run_command: one subprocess.run(check=True); CalledProcessError (a      *)
(* non-zero exit status) is caught and turned into False.  e.exit gives    *)
(* the status with which each command exits.                               *)
(***************************************************************************)
run_command_always_true(w, e, command, description) ==
    LET code == e.exit[command]
        w1 == Emit(w, Out("start", description))
        w2 == Emit(w1, Ev("spawn", command, description, code))
    IN  Return(Emit(w2, Out("completed", description)), PyTrue)

run_command(w, e, command, description) ==
    LET code == e.exit[command]
        w1 == Emit(w, Out("start", description))
        w2 == Emit(w1, Ev("spawn", command, description, code))
    IN  IF code = 0
        THEN Return(Emit(w2, Out("completed", description)), PyTrue)
        ELSE Return(Emit(Emit(w2, Out("failed", description)), Out("stderr", command)), PyFalse)

(***************************************************************************)
(* shutil.rmtree(dir_name) as clean_build_files calls it: a directory tree *)
(* is removed, anything else that exists raises NotADirectoryError, a path *)
(* that does not exist raises FileNotFoundError.                           *)
(***************************************************************************)
rmtree(w, dir_name) ==
    LET w1 == Emit(w, Ev("rmtree", dir_name, w.fs[dir_name], NoCode))
    IN  CASE w.fs[dir_name] = "dir" -> [w1 EXCEPT !.fs[dir_name] = "absent"]
          [] w.fs[dir_name] = "file" -> Raise(w1, "NotADirectoryError")
          [] OTHER -> Raise(w1, "FileNotFoundError")

\* the for loop of clean_build_files, from index i on
RECURSIVE clean_loop_unguarded(_, _)
clean_loop_unguarded(w, i) ==
    IF i > Len(build_dirs)
    THEN Return(w, PyNone)
    ELSE LET r == rmtree(w, build_dirs[i])
         IN  IF r.exc # "none"
             THEN r
             ELSE clean_loop_unguarded(Emit(r, Out("removed", build_dirs[i])), i + 1)

RECURSIVE clean_loop(_, _)
clean_loop(w, i) ==
    IF i > Len(build_dirs)
    THEN Return(w, PyNone)
    ELSE IF exists(w.fs[build_dirs[i]])
         THEN LET r == rmtree(w, build_dirs[i])
              IN  IF r.exc # "none"
                  THEN r
                  ELSE clean_loop(Emit(r, Out("removed", build_dirs[i])), i + 1)
         ELSE clean_loop(w, i + 1)

\* no return statement: the function returns None
clean_build_files(w, e) == clean_loop(Emit(w, Call("clean_build_files")), 1)

(***************************************************************************)
(* The loop shared by build_package and run_tests:                         *)
(*   for cmd in commands: if not run_command(cmd, d): return False         *)
(*   return True                                                           *)
(***************************************************************************)
RECURSIVE run_each_no_stop(_, _, _, _, _)
run_each_no_stop(w, e, commands, description, i) ==
    IF i > Len(commands)
    THEN Return(w, PyTrue)
    ELSE run_each_no_stop(run_command(w, e, commands[i], description),
                          e, commands, description, i + 1)

RECURSIVE run_each(_, _, _, _, _)
run_each(w, e, commands, description, i) ==
    IF i > Len(commands)
    THEN Return(w, PyTrue)
    ELSE LET r == run_command(w, e, commands[i], description)
         IN  IF ~Truthy(r.ret)
             THEN Return(r, PyFalse)
             ELSE run_each(r, e, commands, description, i + 1)

build_package(w, e) ==
    run_each(Emit(w, Call("build_package")), e, build_commands, "Building package", 1)

install_locally(w, e) ==
    run_command(Emit(w, Call("install_locally")), e, install_command,
                "Installing package locally")

run_tests(w, e) ==
    run_each(Emit(w, Call("run_tests")), e, tests, "Running validation test", 1)

(***************************************************************************)
(* upload_to_pypi: five lines of notes, the confirmation prompt, and the   *)
(* upload command only when response.lower() == 'y'.                       *)
(***************************************************************************)
upload_notes(w) ==
    [w EXCEPT !.log = w.log \o <<Out("uploading", ""), Out("note", "0"), Out("note", "1"),
                                 Out("note", "2"), Out("note", "3")>>]

upload_to_pypi_no_return(w, e) ==
    LET w1 == upload_notes(Emit(w, Call("upload_to_pypi")))
        w2 == [Emit(w1, Ev("input", "Continue with upload? (y/N): ", "", NoCode))
                  EXCEPT !.response = e.response]
        w3 == IF lower(w2.response) # <<"y">> THEN Emit(w2, Out("cancelled", "")) ELSE w2
    IN  run_command(w3, e, upload_command, "Uploading to PyPI")

upload_to_pypi(w, e) ==
    LET w1 == upload_notes(Emit(w, Call("upload_to_pypi")))
        w2 == [Emit(w1, Ev("input", "Continue with upload? (y/N): ", "", NoCode))
                  EXCEPT !.response = e.response]
    IN  IF lower(w2.response) # <<"y">>
        THEN Return(Emit(w2, Out("cancelled", "")), PyFalse)
        ELSE run_command(w2, e, upload_command, "Uploading to PyPI")

(***************************************************************************)
(* create_zip_package: every item of files_to_include that exists is       *)
(* written to the archive, a directory by walking it; the archive's file   *)
(* name is returned.  e.items gives the kind of each item.                 *)
(***************************************************************************)
RECURSIVE zip_loop(_, _, _)
zip_loop(w, e, i) ==
    IF i > Len(files_to_include)
    THEN w
    ELSE LET item == files_to_include[i]
         IN  IF exists(e.items[item])
             THEN IF isdir(e.items[item])
                  THEN zip_loop(Emit(w, Ev("zipwrite", item, "walk", NoCode)), e, i + 1)
                  ELSE zip_loop(Emit(w, Ev("zipwrite", item, "file", NoCode)), e, i + 1)
             ELSE zip_loop(w, e, i + 1)

create_zip_package(w, e) ==
    LET w1 == Emit(Emit(w, Call("create_zip_package")), Out("creating", zip_filename))
        w2 == zip_loop(w1, e, 1)
    IN  Return(Emit(w2, Out("created", zip_filename)), zip_filename)

(***************************************************************************)
(* The lambda of entry '7':                                                *)
(*   clean_build_files() and build_package() and install_locally()         *)
(*   and run_tests()                                                       *)
(* `a and b` is a when a is falsy, b otherwise; an exception ends the      *)
(* whole expression.                                                       *)
(***************************************************************************)
full_pipeline(w, e) ==
    LET w0 == Emit(w, Call("full_pipeline"))
        a == clean_build_files(w0, e)
    IN  IF a.exc # "none" \/ ~Truthy(a.ret) THEN a
        ELSE LET b == build_package(a, e)
             IN  IF b.exc # "none" \/ ~Truthy(b.ret) THEN b
                 ELSE LET c == install_locally(b, e)
                      IN  IF c.exc # "none" \/ ~Truthy(c.ret) THEN c
                          ELSE run_tests(c, e)

\* sys.exit() raises SystemExit
sys_exit(w, e) == Raise(Emit(w, Call("sys.exit")), "SystemExit")

\* calling the zero-argument callable of an entry
Apply(function, w, e) ==
    CASE function = "clean_build_files" -> clean_build_files(w, e)
      [] function = "build_package" -> build_package(w, e)
      [] function = "install_locally" -> install_locally(w, e)
      [] function = "run_tests" -> run_tests(w, e)
      [] function = "create_zip_package" -> create_zip_package(w, e)
      [] function = "upload_to_pypi" -> upload_to_pypi(w, e)
      [] function = "full_pipeline" -> full_pipeline(w, e)
      [] function = "sys.exit" -> sys_exit(w, e)

(***************************************************************************)
(* main(): the options table, in registration order.                       *)
(***************************************************************************)
Entry(key, description, function) ==
    [key |-> key, description |-> description, function |-> function]

OptionsTable ==
    << Entry("1", "Clean build files", "clean_build_files"),
       Entry("2", "Build package", "build_package"),
       Entry("3", "Install locally", "install_locally"),
       Entry("4", "Run tests", "run_tests"),
       Entry("5", "Create ZIP package", "create_zip_package"),
       Entry("6", "Upload to PyPI", "upload_to_pypi"),
       Entry("7", "Full pipeline (clean+build+install+test)", "full_pipeline"),
       Entry("8", "Exit", "sys.exit") >>

\* `choice in options`
Has(opts, c) == \E i \in 1..Len(opts) : <<opts[i].key>> = c

\* `options[choice]`
Get_first(opts, c) == opts[1]

Get(opts, c) == opts[CHOOSE i \in 1..Len(opts) : <<opts[i].key>> = c]

\* the banner main() prints, then function()
RunEntry_banner_after(w, entry, e) ==
    LET w1 == [w EXCEPT !.log = w.log \o <<Out("rule", ""),
                                           Out("running", entry.description),
                                           Out("rule", "")>>]
        r == Apply(entry.function, Emit(w1, Ev("invoke", entry.function, entry.key, NoCode)), e)
    IN  IF r.exc = "none" THEN Emit(r, Out("rule", "")) ELSE r

RunEntry(w, entry, e) ==
    LET w1 == [w EXCEPT !.log = w.log \o <<Out("rule", ""),
                                           Out("running", entry.description),
                                           Out("rule", "")>>]
    IN  Apply(entry.function, Emit(w1, Ev("invoke", entry.function, entry.key, NoCode)), e)

(***************************************************************************)
(* What the environment supplies to one call of an operation: the exit     *)
(* status of each command the operation can spawn, the answer to the       *)
(* upload confirmation, and the kind of each path the archive is made of.  *)
(***************************************************************************)
ExitCodes == 0..MaxExit

Spawns(function) ==
    CASE function = "build_package" -> Range(build_commands)
      [] function = "install_locally" -> {install_command}
      [] function = "run_tests" -> Range(tests)
      [] function = "upload_to_pypi" -> {upload_command}
      [] function = "full_pipeline" ->
             Range(build_commands) \cup {install_command} \cup Range(tests)
      [] OTHER -> {}

Responses ==
    { <<"y">>, <<"Y">>, <<"n">>, <<"N">>, <<>>, <<"y", "e", "s">>, <<" ", "y">>, <<"y", " ">> }

\* a path written with a trailing slash exists only as a directory
NaturalKind(item) == IF item \in {"delta_optimizer/", "examples/"} THEN "dir" ELSE "file"

ItemKinds(item) == IF NaturalKind(item) = "dir" THEN {"absent", "dir"} ELSE Kinds

NaturalItems == [item \in Range(files_to_include) |-> NaturalKind(item)]

ItemWorlds ==
    { x \in ({ [item \in Range(files_to_include) |-> "absent"] } \cup
              { [NaturalItems EXCEPT ![item] = k] : item \in Range(files_to_include), k \in Kinds }) :
        \A item \in Range(files_to_include) : x[item] \in ItemKinds(item) }

Envs(function) ==
    [ exit : [Spawns(function) -> ExitCodes],
      response : IF function = "upload_to_pypi" THEN Responses ELSE {<<>>},
      items : IF function = "create_zip_package" THEN ItemWorlds ELSE {NaturalItems} ]

(***************************************************************************)
(* Lines the operator can type at the menu prompt.                         *)
(***************************************************************************)
Blanks(n) == [i \in 1..n |-> " "]

Cores ==
    { <<OptionsTable[i].key>> : i \in 1..Len(OptionsTable) } \cup
    { <<>>, <<"9">>, <<"0">>, <<"y">>, <<"1", "2">>, <<"1", " ", "2">>, <<"\t", "3">> }

RawInputs == { Blanks(a) \o c \o Blanks(b) : a \in 0..MaxPad, b \in 0..MaxPad, c \in Cores }

(***************************************************************************)
(* The state machine of main().                                            *)
(***************************************************************************)
Init ==
    /\ pc = "menu"
    /\ options = OptionsTable
    /\ raw = <<>>
    /\ choice = <<>>
    /\ fs \in [Range(build_dirs) -> Kinds]
    /\ log = <<>>
    /\ ret = PyNone
    /\ exc = "none"
    /\ response = <<>>
    /\ streak = 0

\* top of the while loop: print the available options
ShowMenu ==
    /\ pc = "menu"
    /\ pc' = "prompt"
    /\ log' = <<Out("available", "")>> \o
              [i \in 1..Len(options) |-> Out(options[i].key, options[i].description)]
    /\ ret' = PyNone
    /\ exc' = "none"
    /\ response' = <<>>
    /\ UNCHANGED <<options, raw, choice, fs, streak>>

\* choice = input("Select an option (1-8): ").strip()
ReadChoice ==
    /\ pc = "prompt"
    /\ \E line \in RawInputs :
         /\ raw' = line
         /\ choice' = strip(line)
    /\ log' = Append(log, Ev("input", "Select an option (1-8): ", "", NoCode))
    /\ pc' = "dispatch"
    /\ UNCHANGED <<options, fs, ret, exc, response, streak>>

\* the else branch: the invalid-option message
InvalidOption_fatal ==
    /\ pc = "dispatch"
    /\ ~Has(options, choice)
    /\ log' = Append(log, Out("invalid", ""))
    /\ pc' = "crashed"
    /\ streak' = 0
    /\ UNCHANGED <<options, raw, choice, fs, ret, exc, response>>

InvalidOption ==
    /\ pc = "dispatch"
    /\ ~Has(options, choice)
    /\ log' = Append(log, Out("invalid", ""))
    /\ pc' = "menu"
    /\ streak' = 0
    /\ UNCHANGED <<options, raw, choice, fs, ret, exc, response>>

\* where main() is after function(): an exception leaves the loop
After(x) ==
    CASE x = "none" -> "menu"
      [] x = "SystemExit" -> "exited"
      [] OTHER -> "crashed"

\* the if branch: look the entry up, print the banner, call function()
Dispatch ==
    /\ pc = "dispatch"
    /\ Has(options, choice)
    /\ LET entry == Get(options, choice)
       IN  \E e \in Envs(entry.function) :
             LET r == RunEntry(World(fs, log, response), entry, e)
             IN  /\ fs' = r.fs
                 /\ log' = r.log
                 /\ response' = r.response
                 /\ ret' = r.ret
                 /\ exc' = r.exc
                 /\ pc' = After(r.exc)
                 /\ streak' = IF entry.function = "clean_build_files" /\ r.exc = "none"
                              THEN (IF streak < MaxStreak THEN streak + 1 ELSE streak)
                              ELSE 0
    /\ UNCHANGED <<options, raw, choice>>

Next == ShowMenu \/ ReadChoice \/ InvalidOption \/ Dispatch

Spec == Init /\ [][Next]_vars

TypeOK ==
    /\ pc \in {"menu", "prompt", "dispatch", "exited", "crashed"}
    /\ fs \in [Range(build_dirs) -> Kinds]
    /\ streak \in 0..MaxStreak

(***************************************************************************)
(* Reading the log of an iteration.                                        *)
(***************************************************************************)
Done == {"menu", "exited", "crashed"}

Idx(kind) == {i \in 1..Len(log) : log[i].kind = kind}

\* function() has been called in this iteration and main() is past the call
Dispatched == pc \in Done /\ Idx("invoke") # {}

DispatchedFn(function) ==
    pc \in Done /\ \E i \in Idx("invoke") : log[i].arg = function

IsCall(ev) == ev.kind = "call"

IsSpawn(ev) == ev.kind = "spawn"

\* the functions called, in call order
Called == [i \in 1..Len(SelectSeq(log, IsCall)) |-> SelectSeq(log, IsCall)[i].arg]

Spawned == SelectSeq(log, IsSpawn)

IsPrefix(s, t) == Len(s) <= Len(t) /\ s = SubSeq(t, 1, Len(s))

PipelineSteps == <<"clean_build_files", "build_package", "install_locally", "run_tests">>

IsStep(fn) == fn \in Range(PipelineSteps)

(***************************************************************************)
(* C1: the full pipeline (key '7') calls clean, build, install, test in    *)
(* that order and stops right after the first step that reports failure:   *)
(* with no failing command all four steps run, each once; with a failing   *)
(* build command only clean and build have run.                            *)
(***************************************************************************)
C1_PipelineOrderAndShortCircuit ==
    (DispatchedFn("full_pipeline") /\ exc = "none") =>
        LET steps == SelectSeq(Called, IsStep)
        IN  /\ IsPrefix(steps, PipelineSteps)
            /\ Len(steps) >= 1
            /\ (\A i \in 1..Len(Spawned) : Spawned[i].code = 0) => steps = PipelineSteps
            /\ (\E i \in 1..Len(Spawned) :
                   Spawned[i].arg \in Range(build_commands) /\ Spawned[i].code # 0)
                 => steps = <<"clean_build_files", "build_package">>

C3_InvalidKeyReported ==
    [][ (pc = "dispatch" /\ \A k \in 1..Len(OptionsTable) : strip(raw) # <<OptionsTable[k].key>>)
          => /\ pc' = "menu"
             /\ options' = options
             /\ fs' = fs
             /\ log' = Append(log, Out("invalid", ""))
             /\ \A i \in 1..Len(log') : log'[i].kind \notin {"invoke", "call", "spawn", "rmtree"}
      ]_vars

C3_Witness ==
    /\ pc = "menu"
    /\ raw = <<" ", "1", " ", "2">>
    /\ log # <<>>
    /\ log[Len(log)] = Out("invalid", "")

(***************************************************************************)
(* C4: in the upload operation the upload command is spawned only after    *)
(* the confirmation was read and was "y" or "Y"; with any other answer it  *)
(* is never spawned and the operation returns False.                       *)
(***************************************************************************)
Affirmative(answer) == answer \in {<<"y">>, <<"Y">>}

C4_UploadOnlyAfterYes ==
    LET ups == {i \in Idx("spawn") : log[i].arg = upload_command}
        asks == {i \in Idx("input") : log[i].arg = "Continue with upload? (y/N): "}
    IN  /\ \A i \in ups : Affirmative(response) /\ \E j \in asks : j < i
        /\ (DispatchedFn("upload_to_pypi") /\ ~Affirmative(response))
             => (ups = {} /\ ret = PyFalse /\ exc = "none")

C4_Witness ==
    /\ DispatchedFn("upload_to_pypi")
    /\ response = <<"y", "e", "s">>
    /\ ret = PyFalse

(***************************************************************************)
(* C5: main() leaves its loop only through the exit entry: after an        *)
(* unmatched key or any entry other than '8' it is back at the menu, and   *)
(* the process ends only when '8' was selected.                            *)
(***************************************************************************)
C5_OnlyExitTerminates ==
    [][ /\ (pc = "dispatch" /\ choice # <<"8">>) => pc' = "menu"
        /\ (pc \notin {"exited", "crashed"} /\ pc' \in {"exited", "crashed"}) => choice = <<"8">>
      ]_vars

(***************************************************************************)
(* C6: every operation of the menu other than exit ends by returning True  *)
(* or False, and none ends by raising into main().                         *)
(***************************************************************************)
C6_OperationsReturnBoolean ==
    (Dispatched /\ ~DispatchedFn("sys.exit")) => (ret \in {PyTrue, PyFalse} /\ exc = "none")

(***************************************************************************)
(* C7: clean is idempotent.  Run from any presence or absence of the three *)
(* directories it completes and leaves none of them; run again right after *)
(* a completed run it completes, removes nothing and leaves the filesystem *)
(* as it was.                                                              *)
(***************************************************************************)
OnlyDirectories(f) == \A d \in Range(build_dirs) : f[d] \in {"absent", "dir"}

C7_CleanIdempotent ==
    [][ (pc = "dispatch" /\ choice = <<"1">> /\ OnlyDirectories(fs))
          => /\ pc' = "menu"
             /\ exc' = "none"
             /\ \A d \in Range(build_dirs) : fs'[d] = "absent"
             /\ streak >= 1 =>
                  /\ fs' = fs
                  /\ \A i \in 1..Len(log') : log'[i].kind # "rmtree"
                  /\ log'[Len(log')] = Call("clean_build_files")
      ]_vars

C7_Witness ==
    /\ pc = "menu"
    /\ streak = 2
    /\ DispatchedFn("clean_build_files")

(***************************************************************************)
(* C8: build and test spawn the commands of their list in list order, each *)
(* at most once, a command only when all before it exited zero and none    *)
(* after a failing one, and return True exactly when every command of the  *)
(* list exited zero.                                                       *)
(***************************************************************************)
StopsAtFirstFailure(function, commands) ==
    DispatchedFn(function) =>
        LET n == Len(Spawned)
        IN  /\ n \in 1..Len(commands)
            /\ \A j \in 1..n : Spawned[j].arg = commands[j]
            /\ \A j \in 1..(n - 1) : Spawned[j].code = 0
            /\ n < Len(commands) => Spawned[n].code # 0
            /\ ret \in {PyTrue, PyFalse}
            /\ ret = PyTrue <=> (n = Len(commands) /\ Spawned[n].code = 0)

C8_StopAtFirstFailure ==
    /\ StopsAtFirstFailure("build_package", build_commands)
    /\ StopsAtFirstFailure("run_tests", tests)

C8_Witness ==
    /\ DispatchedFn("run_tests")
    /\ Len(Spawned) = 2
    /\ Spawned[1].code = 0
    /\ Spawned[2].code # 0
    /\ ret = PyFalse

(***************************************************************************)
(* C9: the command wrapper spawns its command once; on exit status zero it *)
(* prints the completion line and returns True, on a non-zero status it    *)
(* prints the failure line and the captured error text and returns False.  *)
(***************************************************************************)
C9_WrapperConvertsExitStatus ==
    /\ \A i \in Idx("spawn") :
          /\ i > 1 /\ log[i - 1] = Out("start", log[i].what)
          /\ i < Len(log)
          /\ log[i].code = 0 => log[i + 1] = Out("completed", log[i].what)
          /\ log[i].code # 0 =>
                /\ log[i + 1] = Out("failed", log[i].what)
                /\ i + 1 < Len(log)
                /\ log[i + 2] = Out("stderr", log[i].arg)
    /\ Cardinality(Idx("spawn")) = Cardinality({i \in 1..Len(log) : log[i].arg = "start"})
    /\ DispatchedFn("install_locally") =>
          /\ Len(Spawned) = 1
          /\ Spawned[1].arg = install_command
          /\ ret \in {PyTrue, PyFalse}
          /\ ret = PyFalse <=> Spawned[1].code # 0

C9_Witness ==
    /\ DispatchedFn("install_locally")
    /\ Len(Spawned) = 1
    /\ Spawned[1].code # 0
    /\ ret = PyFalse

(***************************************************************************)
(* C10 as stated: every call of an operation is preceded and followed by   *)
(* a banner print within the same iteration.                               *)
(***************************************************************************)
IsBanner(ev) == ev.kind = "print" /\ ev.arg \in {"rule", "running"}

C10_BannerBeforeAndAfter ==
    (pc = "menu" /\ Idx("invoke") # {}) =>
        \A i \in Idx("invoke") :
            /\ \E j \in 1..(i - 1) : IsBanner(log[j])
            /\ \E j \in (i + 1)..Len(log) : IsBanner(log[j])

(***************************************************************************)
(* C10 amended: the three banner lines (rule, "Running: <description>",    *)
(* rule) are printed immediately before the call of the operation, and no  *)
(* banner line is printed after it in that iteration.                      *)
(***************************************************************************)
C10_BannerOnlyBefore ==
    Dispatched =>
        \A i \in Idx("invoke") :
            /\ i > 3
            /\ log[i - 3] = Out("rule", "")
            /\ log[i - 2].kind = "print" /\ log[i - 2].arg = "running"
            /\ \E k \in 1..Len(options) :
                  /\ options[k].function = log[i].arg
                  /\ log[i - 2].what = options[k].description
            /\ log[i - 1] = Out("rule", "")
            /\ \A j \in (i + 1)..Len(log) : ~IsBanner(log[j])

C10_Witness ==
    /\ pc = "menu"
    /\ DispatchedFn("build_package")
    /\ ret = PyTrue
    /\ log[Len(log)] = Out("completed", "Building package")

====
